---- MODULE Spec2Model ----
(***************************************************************************)
(* Model of quantmind.workflow: Task lifecycle (tasks.py) and the Pipeline  *)
(* DAG scheduler (pipeline.py).  One driving thread runs Pipeline.execute   *)
(* and the scheduling loop; pool workers run Pipeline._execute_task;        *)
(* cancel() may be called from any other thread at any time.  Tasks are     *)
(* added before the first execute() and carry distinct task_ids (task i of  *)
(* the list has task_id i); a dependency may name any id, also one that is  *)
(* never added.  execute() and cancel() may be called any number of times.  *)
(***************************************************************************)
EXTENDS Integers, Sequences, FiniteSets, TLC

\* ---- bounds of the model -------------------------------------------------
MaxTasks == 2        \* tasks added to the pipeline
MaxWorkers == 2      \* largest max_workers a pipeline is constructed with

TaskIds == 1..MaxTasks

\* ---- TaskStatus (tasks.py, class TaskStatus) -----------------------------
PENDING == "pending"
RUNNING == "running"
COMPLETED == "completed"
FAILED == "failed"
CANCELLED == "cancelled"
TaskStatus == {PENDING, RUNNING, COMPLETED, FAILED, CANCELLED}
Terminal == {COMPLETED, FAILED, CANCELLED}

\* What a task's validate() and execute() do: "ok" validates and returns,
\* "fail" validates and raises, "invalid" does not validate.
TaskKinds == {"ok", "fail", "invalid"}

None == <<>>
\* str(e) of the exception execute() of task t raises
ErrorOf(t) == <<"boom", t>>
\* f"Task {task.task_id} validation failed"
ValidationError(t) == <<"validation failed", t>>

\* state of a Future of the ThreadPoolExecutor, refined by the position of
\* the worker inside _execute_task
NoFuture == "none"
FutureDone == {"done_ok", "done_exc", "cancelled"}

\* ---- text and Paper records (models/paper.py) ----------------------------
\* A str the code only tests for emptiness (names, queries, ids) is a
\* string, "" also standing for an Optional[str] that is None: the code
\* reads these fields by truthiness only.  A str the code measures or
\* converts (title, abstract) is kept by its characters.
MaxPapers == 2       \* longest paper list handed to a task or to the agent

\* self.config.get("max_workers", 4)
DEFAULT_MAX_WORKERS == 4

MIN_TITLE_LENGTH == 10
MIN_ABSTRACT_LENGTH == 50

\* A text is kept run-length encoded: the sequence of its maximal runs
\* [c, n] of n >= 1 equal characters c.
Run(c, n) == [c |-> c, n |-> n]
Rep(c, n) == IF n = 0 THEN <<>> ELSE <<Run(c, n)>>
Whitespace == {" "}

\* concatenation, joining the runs that meet
Concat(s, t) ==
    IF Len(s) = 0 THEN t
    ELSE IF Len(t) = 0 THEN s
    ELSE IF s[Len(s)].c = t[1].c
         THEN SubSeq(s, 1, Len(s) - 1)
                 \o <<Run(t[1].c, s[Len(s)].n + t[1].n)>> \o Tail(t)
         ELSE s \o t

\* len(s)
RECURSIVE TextLen(_)
TextLen(s) == IF Len(s) = 0 THEN 0 ELSE s[1].n + TextLen(Tail(s))

RECURSIVE LStrip(_)
LStrip(s) == IF Len(s) > 0 /\ s[1].c \in Whitespace
             THEN LStrip(Tail(s)) ELSE s
RECURSIVE RStrip(_)
RStrip(s) == IF Len(s) > 0 /\ s[Len(s)].c \in Whitespace
             THEN RStrip(SubSeq(s, 1, Len(s) - 1)) ELSE s
\* str.strip()
Strip(s) == RStrip(LStrip(s))

LowerChar(c) == CASE c = "A" -> "a" [] c = "B" -> "b" [] OTHER -> c
\* str.lower()
RECURSIVE Lower(_)
Lower(s) ==
    IF Len(s) = 0 THEN <<>>
    ELSE Concat(<<Run(LowerChar(s[1].c), s[1].n)>>, Lower(Tail(s)))

UpperTitle == Rep("A", MIN_TITLE_LENGTH)
LowerTitle == Rep("a", MIN_TITLE_LENGTH)
\* long enough only with its surrounding blanks
PaddedTitle ==
    Concat(Rep(" ", 1), Concat(Rep("B", MIN_TITLE_LENGTH - 1), Rep(" ", 1)))
GoodAbstract == Rep("x", MIN_ABSTRACT_LENGTH)
PaddedAbstract == Concat(Rep("x", MIN_ABSTRACT_LENGTH - 1), Rep(" ", 1))

\* Paper(arxiv_id=..., doi=..., title=..., abstract=...); title and abstract
\* have min_length 1
Paper(arxiv_id, doi, title, abstract) ==
    [arxiv_id |-> arxiv_id, doi |-> doi, title |-> title, abstract |-> abstract]

Papers ==
    { Paper("2301.00001", "", UpperTitle, GoodAbstract),
      Paper("2301.00001", "10.1/j", PaddedTitle, GoodAbstract),
      Paper("", "10.1/j", UpperTitle, PaddedAbstract),
      Paper("", "", UpperTitle, GoodAbstract),
      Paper("", "", LowerTitle, GoodAbstract) }

\* the lists of at most n elements of S
ListsUpTo(S, n) == UNION {[1..k -> S] : k \in 0..n}

PaperLists == ListsUpTo(Papers, MaxPapers)

\* ---- CrawlTask / ParseTask / TagTask / StoreTask (tasks.py) --------------
\* constructor arguments of a task: source_name / parser_name / tagger_name /
\* storage_name, and for a CrawlTask query and max_results
TaskConfig(name, query, max_results) ==
    [name |-> name, query |-> query, max_results |-> max_results]

\* bool(s) of a str
Bool(s) == s # ""

CrawlTaskValidate_ZeroAllowed(config) ==
    Bool(config.name) /\ Bool(config.query) /\ config.max_results >= 0

CrawlTaskValidate(config) ==
    Bool(config.name) /\ Bool(config.query) /\ config.max_results > 0

ParseTaskValidate(config, papers) == Bool(config.name) /\ Len(papers) > 0

TagTaskValidate(config, papers) == Bool(config.name) /\ Len(papers) > 0

StoreTaskValidate(config, papers) == Bool(config.name) /\ Len(papers) > 0

StageTypes == {"parse", "tag", "store"}

\* task.validate() of a task object [type, config, papers]
TaskValidate(task) ==
    CASE task.type = "crawl" -> CrawlTaskValidate(task.config)
      [] task.type = "parse" -> ParseTaskValidate(task.config, task.papers)
      [] task.type = "tag" -> TagTaskValidate(task.config, task.papers)
      [] task.type = "store" -> StoreTaskValidate(task.config, task.papers)

TaskObject(type, config, papers) ==
    [type |-> type, config |-> config, papers |-> papers]

NoTask == TaskObject("none", TaskConfig("", "", 0), <<>>)

\* the context dict of an execute() call: the names its registry holds and
\* the positions of the task's list at which the collaborator call raises
Context(registered, raises) == [registered |-> registered, raises |-> raises]
NoContext == Context({}, {})

\* arguments the task constructors are called with
NameArgs == {"", "arxiv"}
QueryArgs == {"", "ml"}
MaxResultsArgs == {-1, 0, 1}

CrawlTaskArgs ==
    {TaskObject("crawl", TaskConfig(n, q, m), <<>>) :
        n \in NameArgs, q \in QueryArgs, m \in MaxResultsArgs}

StageTaskArgs ==
    {TaskObject(ty, TaskConfig(n, "", 0), ps) :
        ty \in StageTypes, n \in NameArgs, ps \in PaperLists}

\* ---- quality control (agent.py) ------------------------------------------
Ord(c) == CASE c = "A" -> 65 [] c = "B" -> 66 [] c = "a" -> 97
            [] c = "b" -> 98 [] c = "x" -> 120 [] OTHER -> 32

\* hash(s) of a str: a function of the characters with a finite range
HashSpace == 1000003
RECURSIVE HashChars(_, _, _)
HashChars(c, n, h) ==
    IF n = 0 THEN h ELSE HashChars(c, n - 1, (h * 31 + Ord(c)) % HashSpace)
RECURSIVE HashFrom(_, _, _)
HashFrom(s, i, h) ==
    IF i > Len(s) THEN h
    ELSE HashFrom(s, i + 1, HashChars(s[i].c, s[i].n, h))
Hash(s) == HashFrom(s, 1, 0)

\* the strings f"arxiv:{id}", f"doi:{doi}" and f"title:{hash}"
PaperKey(prefix, id, h) == [prefix |-> prefix, id |-> id, hash |-> h]

\* mutant of _get_paper_key: the title is hashed as it is written
GetPaperKey_CaseSensitive(paper) ==
    IF Bool(paper.arxiv_id) THEN PaperKey("arxiv", paper.arxiv_id, 0)
    ELSE IF Bool(paper.doi) THEN PaperKey("doi", paper.doi, 0)
    ELSE PaperKey("title", "", Hash(paper.title))

\* WorkflowAgent._get_paper_key
GetPaperKey(paper) ==
    IF Bool(paper.arxiv_id) THEN PaperKey("arxiv", paper.arxiv_id, 0)
    ELSE IF Bool(paper.doi) THEN PaperKey("doi", paper.doi, 0)
    ELSE PaperKey("title", "", Hash(Lower(paper.title)))

\* filter functions a caller may add: what filter_func(paper) does
FilterKinds == {"no_arxiv", "arxiv_or_raise"}
FilterCall(f, paper) ==
    CASE f = "no_arxiv" -> IF Bool(paper.arxiv_id) THEN "false" ELSE "true"
      [] f = "arxiv_or_raise" -> IF Bool(paper.arxiv_id) THEN "true" ELSE "raise"

\* mutant: a filter that raises is skipped
RECURSIVE CustomFiltersPass_RaiseSkipped(_, _, _)
CustomFiltersPass_RaiseSkipped(filters, i, paper) ==
    IF i > Len(filters) THEN TRUE
    ELSE IF FilterCall(filters[i], paper) = "false" THEN FALSE
    ELSE CustomFiltersPass_RaiseSkipped(filters, i + 1, paper)

\* the loop over self.quality_filters: a filter that returns false or
\* raises ends it with False
RECURSIVE CustomFiltersPass(_, _, _)
CustomFiltersPass(filters, i, paper) ==
    IF i > Len(filters) THEN TRUE
    ELSE IF FilterCall(filters[i], paper) # "true" THEN FALSE
    ELSE CustomFiltersPass(filters, i + 1, paper)

PassesQualityFilters_Unstripped(filters, paper) ==
    IF Len(paper.title) = 0 \/ TextLen(paper.title) < MIN_TITLE_LENGTH
    THEN FALSE
    ELSE IF Len(paper.abstract) = 0
            \/ TextLen(paper.abstract) < MIN_ABSTRACT_LENGTH THEN FALSE
    ELSE CustomFiltersPass(filters, 1, paper)

\* WorkflowAgent._passes_quality_filters
PassesQualityFilters(filters, paper) ==
    IF Len(paper.title) = 0 \/ TextLen(Strip(paper.title)) < MIN_TITLE_LENGTH
    THEN FALSE
    ELSE IF Len(paper.abstract) = 0
            \/ TextLen(Strip(paper.abstract)) < MIN_ABSTRACT_LENGTH THEN FALSE
    ELSE CustomFiltersPass(filters, 1, paper)

RECURSIVE QualityLoop_Forgetful(_, _, _, _, _, _)
QualityLoop_Forgetful(dedup, filters, papers, i, seen, filtered) ==
    IF i > Len(papers) THEN [seen |-> seen, filtered |-> filtered]
    ELSE QualityLoop_Forgetful(dedup, filters, papers, i + 1, seen,
             IF PassesQualityFilters(filters, papers[i])
             THEN Append(filtered, papers[i]) ELSE filtered)

\* mutants of the loop: the key is added only for a record that passes the
\* checks; the enable_deduplication flag is not consulted
RECURSIVE QualityLoop_KeyAfterChecks(_, _, _, _, _, _)
QualityLoop_KeyAfterChecks(dedup, filters, papers, i, seen, filtered) ==
    IF i > Len(papers) THEN [seen |-> seen, filtered |-> filtered]
    ELSE LET paper == papers[i]
             paper_key == GetPaperKey(paper)
             passes == PassesQualityFilters(filters, paper)
         IN IF dedup /\ paper_key \in seen
            THEN QualityLoop_KeyAfterChecks(dedup, filters, papers, i + 1,
                                            seen, filtered)
            ELSE QualityLoop_KeyAfterChecks(dedup, filters, papers, i + 1,
                     IF dedup /\ passes THEN seen \cup {paper_key} ELSE seen,
                     IF passes THEN Append(filtered, paper) ELSE filtered)

RECURSIVE QualityLoop_AlwaysDedup(_, _, _, _, _, _)
QualityLoop_AlwaysDedup(dedup, filters, papers, i, seen, filtered) ==
    IF i > Len(papers) THEN [seen |-> seen, filtered |-> filtered]
    ELSE LET paper == papers[i]
             paper_key == GetPaperKey(paper)
         IN IF paper_key \in seen
            THEN QualityLoop_AlwaysDedup(dedup, filters, papers, i + 1,
                                         seen, filtered)
            ELSE QualityLoop_AlwaysDedup(dedup, filters, papers, i + 1,
                     seen \cup {paper_key},
                     IF PassesQualityFilters(filters, paper)
                     THEN Append(filtered, paper) ELSE filtered)

\* the loop of apply_quality_control from paper i on, with the seen_papers
\* set and the filtered_papers list built so far
RECURSIVE QualityLoop(_, _, _, _, _, _)
QualityLoop(dedup, filters, papers, i, seen, filtered) ==
    IF i > Len(papers) THEN [seen |-> seen, filtered |-> filtered]
    ELSE LET paper == papers[i]
             paper_key == GetPaperKey(paper)
         IN IF dedup /\ paper_key \in seen
            THEN QualityLoop(dedup, filters, papers, i + 1, seen, filtered)
            ELSE QualityLoop(dedup, filters, papers, i + 1,
                     IF dedup THEN seen \cup {paper_key} ELSE seen,
                     IF PassesQualityFilters(filters, paper)
                     THEN Append(filtered, paper) ELSE filtered)

VARIABLES
    max_workers,       \* Pipeline.max_workers
    tasks,             \* Pipeline.tasks: sequence of task kinds, task i has task_id i
    dependencies,      \* Pipeline.dependencies: task_id -> set of task_ids
    status,            \* Task.status of each task
    error_message,     \* Task.error_message of each task
    results,           \* Pipeline.results: task_id -> result
    futures,           \* Pipeline.futures: task_id -> future state (NoFuture: no entry)
    pstatus,           \* Pipeline.status
    pc,                \* position of the driving thread
    ready_tasks,       \* local ready_tasks of _execute_tasks still to be looked at
    completed_tasks,   \* local completed_tasks of _execute_tasks
    executing_tasks,   \* local executing_tasks of _execute_tasks
    complete_calls,    \* number of on_pipeline_complete invocations of the current run
    unstarted_at_cancel, \* tasks cancel() found PENDING and unsubmitted during the current run
    submitted_in_run,  \* tasks handed to executor.submit during the current run
    on_task_fail_calls, \* the (task, error_msg) pairs on_task_fail was invoked with
    vtask,             \* a task object constructed on its own
    vresult,           \* what its validate() returned: <<>> before the call, <<b>> after
    vcontext,          \* the context its execute() is called with
    vexecute,          \* how that call ended: <<>> before the call
    task_counts,       \* task_counts of a get_pipeline_stats call, in the order filled
    key_papers,        \* Paper objects _get_paper_key is called with
    paper_keys,        \* what it returned for each: <<>> before the calls
    enable_deduplication, \* WorkflowAgent.enable_deduplication
    quality_filters,   \* WorkflowAgent.quality_filters
    seen_papers,       \* WorkflowAgent.seen_papers
    qc_input,          \* the list the last apply_quality_control call was given
    qc_result,         \* the list that call returned
    sources,           \* WorkflowAgent.sources: registered names
    parsers,           \* WorkflowAgent.parsers
    taggers,           \* WorkflowAgent.taggers
    storages,          \* WorkflowAgent.storages
    pipelines,         \* WorkflowAgent.pipelines: name -> arguments the pipeline was built from
    current,           \* name of the pipeline object the pipeline variables describe
    execution_history, \* WorkflowAgent.execution_history
    apc,               \* position of the thread that calls the agent
    agent_error,       \* exception the last agent call raised, "" if it returned
    task_config,       \* constructor arguments of the tasks of an agent-built pipeline
    task_papers,       \* Task.papers of those tasks
    task_result        \* Task.result of those tasks

vars == <<max_workers, tasks, dependencies, status, error_message, results,
          futures, pstatus, pc, ready_tasks, completed_tasks, executing_tasks,
          complete_calls, unstarted_at_cancel, submitted_in_run,
          on_task_fail_calls, vtask, vresult, vcontext, vexecute,
          task_counts, key_papers, paper_keys,
          enable_deduplication, quality_filters, seen_papers, qc_input,
          qc_result, sources, parsers, taggers, storages, pipelines, current,
          execution_history, apc, agent_error, task_config, task_papers,
          task_result>>

\* state outside the pipeline object
validate_vars == <<vtask, vresult, vcontext, vexecute, task_counts,
                   key_papers, paper_keys>>
quality_vars == <<enable_deduplication, quality_filters, seen_papers,
                   qc_input, qc_result>>
registry_vars == <<sources, parsers, taggers, storages>>
task_data == <<task_config, task_papers, task_result>>
run_vars == <<pipelines, current, execution_history, apc, agent_error>>
agent_vars == <<registry_vars, task_data, run_vars>>
agent_side == <<validate_vars, quality_vars, agent_vars>>

Ids == DOMAIN tasks

\* the kinds of task create_extraction_pipeline builds, in chain order
AllStages == <<"crawl", "parse", "tag", "store">>
ChainIds == DOMAIN AllStages

\* the value execute() of task t returns
ResultOf(t) == IF tasks[t] \in TaskKinds THEN <<"result", t>> ELSE task_result[t]

\* Pipeline.__init__
PipelineFields ==
    /\ tasks = <<>>
    /\ dependencies = <<>>
    /\ status = <<>>
    /\ error_message = <<>>
    /\ results = <<>>
    /\ futures = <<>>
    /\ pstatus = "initialized"
    /\ pc = "idle"
    /\ ready_tasks = <<>>
    /\ completed_tasks = {}
    /\ executing_tasks = {}
    /\ complete_calls = 0
    /\ unstarted_at_cancel = {}
    /\ submitted_in_run = {}
    /\ on_task_fail_calls = {}

PipelineInit == max_workers \in 1..MaxWorkers /\ PipelineFields

\* no task object constructed outside the pipeline
NoValidation ==
    /\ vtask = NoTask
    /\ vresult = <<>>
    /\ vcontext = NoContext
    /\ vexecute = <<>>
    /\ task_counts = <<>>
    /\ key_papers = <<>>
    /\ paper_keys = <<>>

\* WorkflowAgent.__init__: quality control part
QualityInit ==
    /\ enable_deduplication \in BOOLEAN
    /\ quality_filters = <<>>
    /\ seen_papers = {}
    /\ qc_input = <<>>
    /\ qc_result = <<>>

\* an agent with the default configuration
DefaultQuality == QualityInit /\ enable_deduplication = TRUE

\* WorkflowAgent.__init__: registries, pipelines and history
AgentInit ==
    /\ sources = {}
    /\ parsers = {}
    /\ taggers = {}
    /\ storages = {}
    /\ pipelines = <<>>
    /\ current = ""
    /\ execution_history = <<>>
    /\ apc = "idle"
    /\ agent_error = ""
    /\ task_config = <<>>
    /\ task_papers = <<>>
    /\ task_result = <<>>

Init == PipelineInit /\ NoValidation /\ DefaultQuality /\ AgentInit

\* Pipeline.add_task(task, dependencies): no check of the dependency list
AddTask(kind, deps) ==
    /\ pc = "idle"
    /\ Len(tasks) < MaxTasks
    /\ tasks' = Append(tasks, kind)
    /\ dependencies' = Append(dependencies, deps)
    /\ status' = Append(status, PENDING)
    /\ error_message' = Append(error_message, None)
    /\ futures' = Append(futures, NoFuture)
    /\ UNCHANGED <<max_workers, results, pstatus, pc, ready_tasks,
                   completed_tasks, executing_tasks, complete_calls, unstarted_at_cancel,
                   submitted_in_run, on_task_fail_calls>>
    /\ UNCHANGED agent_side

\* ---- Task.start / complete / fail / cancel (tasks.py) --------------------
\* Task.start: no check of the current status
TaskStart(st, t) == [st EXCEPT ![t] = RUNNING]

\* Task.complete
TaskComplete(st, t) == [st EXCEPT ![t] = COMPLETED]

\* mutant of Task.fail: the status is left as it was
TaskFail_Ignored(st, t) == st

\* Task.fail
TaskFail(st, t) == [st EXCEPT ![t] = FAILED]

\* Task.cancel
TaskCancel(st, t) == [st EXCEPT ![t] = CANCELLED]

\* mutants of _are_dependencies_met: the dependency list is not consulted;
\* a task's dependency on itself is skipped
AreDependenciesMet_Ignored(t, completed) == TRUE

AreDependenciesMet_SkipSelf(t, completed) ==
    \A dep \in dependencies[t] \ {t} : dep \in completed

\* ---- Pipeline._are_dependencies_met --------------------------------------
AreDependenciesMet(t, completed) ==
    \A dep \in dependencies[t] : dep \in completed

\* the ready_tasks list _execute_tasks builds at the top of an iteration,
\* in insertion order
IsReady(t) ==
    /\ t \notin completed_tasks
    /\ t \notin executing_tasks
    /\ AreDependenciesMet(t, completed_tasks)

FindReady == SelectSeq([i \in 1..Len(tasks) |-> i], IsReady)

\* futures with an entry in Pipeline.futures
Submitted == {t \in Ids : futures[t] # NoFuture}

\* mutant of the capacity test: <= in place of <
HasCapacity_OffByOne(executing) == Cardinality(executing) <= max_workers

\* `if len(executing_tasks) < self.max_workers` of the submit loop
HasCapacity(executing) == Cardinality(executing) < max_workers

\* mutant: every task passes validation
Validate_AlwaysValid(t) == TRUE

\* Task.validate() of task t
Validate(t) ==
    IF tasks[t] \in TaskKinds THEN tasks[t] # "invalid"
    ELSE TaskValidate(TaskObject(tasks[t], task_config[t], task_papers[t]))

\* ---- Pipeline.execute: entry ---------------------------------------------
ExecuteBegin ==
    /\ pc \in {"idle", "returned", "raised"}
    /\ pstatus' = "running"
    /\ pc' = "loop"
    /\ completed_tasks' = {}
    /\ executing_tasks' = {}
    /\ ready_tasks' = <<>>
    /\ complete_calls' = 0
    /\ unstarted_at_cancel' = {}
    /\ submitted_in_run' = {}
    /\ UNCHANGED <<max_workers, tasks, dependencies, status, error_message,
                   results, futures, on_task_fail_calls>>

\* pipeline.execute() called on a pipeline the caller built
Execute == ExecuteBegin /\ UNCHANGED agent_side

\* mutant of _handle_completed_task: the result is not stored
HandleCompleted_NoResult(done) ==
    LET ok == {t \in done : futures[t] = "done_ok"} IN
    /\ futures' = [t \in Ids |-> IF t \in done THEN NoFuture ELSE futures[t]]
    /\ executing_tasks' = executing_tasks \ done
    /\ results' = results
    /\ completed_tasks' = completed_tasks \cup ok

\* mutant: a task whose future raised counts as completed
HandleCompleted_FailedCountsAsDone(done) ==
    LET ok == {t \in done : futures[t] = "done_ok"} IN
    /\ futures' = [t \in Ids |-> IF t \in done THEN NoFuture ELSE futures[t]]
    /\ executing_tasks' = executing_tasks \ done
    /\ results' = [t \in (DOMAIN results) \cup ok |->
                      IF t \in ok THEN ResultOf(t) ELSE results[t]]
    /\ completed_tasks' = completed_tasks \cup done

\* Pipeline._handle_completed_task for every task of the set done
HandleCompleted(done) ==
    LET ok == {t \in done : futures[t] = "done_ok"} IN
    /\ futures' = [t \in Ids |-> IF t \in done THEN NoFuture ELSE futures[t]]
    /\ executing_tasks' = executing_tasks \ done
    /\ results' = [t \in (DOMAIN results) \cup ok |->
                      IF t \in ok THEN ResultOf(t) ELSE results[t]]
    /\ completed_tasks' = completed_tasks \cup ok

\* the futures for which future.done() holds
DoneFutures == {t \in Ids : futures[t] \in FutureDone}

\* Pipeline._execute_tasks: top of the while loop, up to the submit loop
SchedulerLoop ==
    /\ pc = "loop"
    /\ Cardinality(completed_tasks) < Len(tasks)
    /\ IF FindReady # <<>>
       THEN /\ ready_tasks' = FindReady
            /\ pc' = "submit"
            /\ UNCHANGED <<futures, executing_tasks, results, completed_tasks>>
       ELSE \* no ready task: poll the futures (or sleep); the deadlock
            \* branch is ExecuteRaise
            /\ Submitted # {}
            /\ HandleCompleted(DoneFutures)
            /\ UNCHANGED <<ready_tasks, pc>>
    /\ UNCHANGED <<max_workers, tasks, dependencies, status, error_message,
                   pstatus, complete_calls, unstarted_at_cancel,
                   submitted_in_run, on_task_fail_calls>>
    /\ UNCHANGED agent_side

\* mutant of _submit_task: the return after task.fail is missing
SubmitTask_NoReturn(t) ==
    /\ IF ~Validate(t)
       THEN /\ status' = TaskFail(status, t)
            /\ error_message' = [error_message EXCEPT ![t] = ValidationError(t)]
       ELSE UNCHANGED <<status, error_message>>
    /\ futures' = [futures EXCEPT ![t] = "pending"]
    /\ executing_tasks' = executing_tasks \cup {t}

\* Pipeline._submit_task(task) followed by executing_tasks.add(task_id)
SubmitTask(t) ==
    /\ IF ~Validate(t)
       THEN /\ status' = TaskFail(status, t)
            /\ error_message' = [error_message EXCEPT ![t] = ValidationError(t)]
            /\ UNCHANGED futures
       ELSE /\ futures' = [futures EXCEPT ![t] = "pending"]
            /\ UNCHANGED <<status, error_message>>
    /\ executing_tasks' = executing_tasks \cup {t}

\* the tasks a step hands to executor.submit
NewlySubmitted ==
    {t \in Ids : futures[t] # "pending" /\ futures'[t] = "pending"}

\* one iteration of `for task in ready_tasks` of _execute_tasks
SchedulerSubmit ==
    /\ pc = "submit"
    /\ ready_tasks # <<>>
    /\ IF HasCapacity(executing_tasks)
       THEN SubmitTask(Head(ready_tasks))
       ELSE UNCHANGED <<status, error_message, futures, executing_tasks>>
    /\ ready_tasks' = Tail(ready_tasks)
    /\ pc' = IF Tail(ready_tasks) = <<>> THEN "poll" ELSE "submit"
    /\ submitted_in_run' = submitted_in_run \cup NewlySubmitted
    /\ UNCHANGED <<max_workers, tasks, dependencies, results, pstatus,
                   completed_tasks, complete_calls,
                   unstarted_at_cancel, on_task_fail_calls>>
    /\ UNCHANGED agent_side

\* "Check for completed tasks" at the end of an iteration
SchedulerPoll ==
    /\ pc = "poll"
    /\ HandleCompleted(DoneFutures)
    /\ pc' = "loop"
    /\ UNCHANGED <<max_workers, tasks, dependencies, status, error_message,
                   pstatus, ready_tasks, complete_calls,
                   unstarted_at_cancel,
                   submitted_in_run, on_task_fail_calls>>
    /\ UNCHANGED agent_side

\* Pipeline.execute: the loop ended; status, on_pipeline_complete, finally.
\* Leaving the `with ThreadPoolExecutor` block waits for the workers; no
\* future is outstanding here or in ExecuteRaise, so the wait is immediate.
ExecuteReturn ==
    /\ pc = "loop"
    /\ ~(Cardinality(completed_tasks) < Len(tasks))
    /\ pstatus' = "completed"
    /\ complete_calls' = complete_calls + 1
    /\ futures' = [t \in Ids |-> NoFuture]
    /\ pc' = "returned"
    /\ UNCHANGED <<max_workers, tasks, dependencies, status, error_message,
                   results, ready_tasks, completed_tasks, executing_tasks,
                   unstarted_at_cancel,
                   submitted_in_run, on_task_fail_calls>>
    /\ UNCHANGED agent_side

\* mutant: the deadlock check does not look at self.futures
ExecuteRaise_IgnoringFutures ==
    /\ pc = "loop"
    /\ Cardinality(completed_tasks) < Len(tasks)
    /\ FindReady = <<>>
    /\ pstatus' = "failed"
    /\ futures' = [t \in Ids |-> NoFuture]
    /\ pc' = "raised"
    /\ UNCHANGED <<max_workers, tasks, dependencies, status, error_message,
                   results, ready_tasks, completed_tasks, executing_tasks,
                   complete_calls, unstarted_at_cancel,
                   submitted_in_run, on_task_fail_calls>>
    /\ UNCHANGED agent_side

\* Pipeline._execute_tasks raises the deadlock error; except and finally of
\* Pipeline.execute
ExecuteRaise ==
    /\ pc = "loop"
    /\ Cardinality(completed_tasks) < Len(tasks)
    /\ FindReady = <<>>
    /\ Submitted = {}
    /\ pstatus' = "failed"
    /\ futures' = [t \in Ids |-> NoFuture]
    /\ pc' = "raised"
    /\ UNCHANGED <<max_workers, tasks, dependencies, status, error_message,
                   results, ready_tasks, completed_tasks, executing_tasks,
                   complete_calls, unstarted_at_cancel,
                   submitted_in_run, on_task_fail_calls>>
    /\ UNCHANGED agent_side

\* ---- pool workers: ThreadPoolExecutor and Pipeline._execute_task ---------
WorkerBusy == {t \in Ids : futures[t] \in {"running", "started", "returning", "raising"}}

\* a pool thread takes the work item: Future.set_running_or_notify_cancel
WorkerPickup(t) ==
    /\ t \in Ids
    /\ futures[t] = "pending"
    /\ Cardinality(WorkerBusy) < max_workers
    /\ futures' = [futures EXCEPT ![t] = "running"]
    /\ UNCHANGED <<max_workers, tasks, dependencies, status, error_message,
                   results, pstatus, pc, ready_tasks, completed_tasks,
                   executing_tasks, complete_calls,
                   unstarted_at_cancel,
                   submitted_in_run, on_task_fail_calls>>
    /\ UNCHANGED agent_side

\* _execute_task: task.start() and on_task_start
WorkerStart(t) ==
    /\ t \in Ids
    /\ futures[t] = "running"
    /\ status' = TaskStart(status, t)
    /\ futures' = [futures EXCEPT ![t] = "started"]
    /\ UNCHANGED <<max_workers, tasks, dependencies, error_message,
                   results, pstatus, pc, ready_tasks, completed_tasks,
                   executing_tasks, complete_calls,
                   unstarted_at_cancel,
                   submitted_in_run, on_task_fail_calls>>
    /\ UNCHANGED agent_side

\* _execute_task: task.execute(context), then task.complete(result) or
\* task.fail(str(e))
WorkerExecute(t) ==
    /\ t \in Ids
    /\ futures[t] = "started"
    /\ IF tasks[t] = "ok"
       THEN /\ status' = TaskComplete(status, t)
            /\ futures' = [futures EXCEPT ![t] = "returning"]
            /\ UNCHANGED error_message
       ELSE /\ status' = TaskFail(status, t)
            /\ error_message' = [error_message EXCEPT ![t] = ErrorOf(t)]
            /\ futures' = [futures EXCEPT ![t] = "raising"]
    /\ UNCHANGED <<max_workers, tasks, dependencies, results, pstatus, pc,
                   ready_tasks, completed_tasks, executing_tasks, complete_calls, unstarted_at_cancel,
                   submitted_in_run, on_task_fail_calls>>
    /\ UNCHANGED agent_side

\* _execute_task: on_task_complete / on_task_fail, then return / raise; the
\* pool sets the future's result or exception
WorkerFinish(t) ==
    /\ t \in Ids
    /\ futures[t] \in {"returning", "raising"}
    /\ futures' = [futures EXCEPT ![t] =
                      IF futures[t] = "returning" THEN "done_ok" ELSE "done_exc"]
    /\ on_task_fail_calls' =
          IF futures[t] = "raising"
          THEN on_task_fail_calls \cup {<<t, ErrorOf(t)>>}
          ELSE on_task_fail_calls
    /\ UNCHANGED <<max_workers, tasks, dependencies, status, error_message,
                   results, pstatus, pc, ready_tasks, completed_tasks,
                   executing_tasks, complete_calls,
                   unstarted_at_cancel, submitted_in_run>>
    /\ UNCHANGED agent_side

\* ---- Pipeline.cancel -----------------------------------------------------
\* Future.cancel(): only a future no worker has taken yet is cancelled
FutureCancel_Never(f) == f

FutureCancel(f) == IF f = "pending" THEN "cancelled" ELSE f

Cancel ==
    /\ pstatus' = "cancelled"
    /\ status' = [t \in Ids |->
                     IF status[t] \in {PENDING, RUNNING}
                     THEN TaskCancel(status, t)[t] ELSE status[t]]
    /\ futures' = [t \in Ids |-> FutureCancel(futures[t])]
    /\ unstarted_at_cancel' =
          IF pc \in {"loop", "submit", "poll"}
          THEN unstarted_at_cancel \cup
                  {t \in Ids : status[t] = PENDING /\ futures[t] = NoFuture}
          ELSE unstarted_at_cancel
    /\ UNCHANGED <<max_workers, tasks, dependencies, error_message, results,
                   pc, ready_tasks, completed_tasks, executing_tasks,
                   complete_calls, submitted_in_run, on_task_fail_calls>>
    /\ UNCHANGED agent_side

Scheduler ==
    \/ SchedulerLoop
    \/ SchedulerSubmit
    \/ SchedulerPoll
    \/ ExecuteReturn
    \/ ExecuteRaise

Worker(t) ==
    \/ WorkerPickup(t)
    \/ WorkerStart(t)
    \/ WorkerExecute(t)
    \/ WorkerFinish(t)

\* add_task, execute() and the threads it drives
RunNext ==
    \/ \E kind \in TaskKinds, deps \in SUBSET TaskIds : AddTask(kind, deps)
    \/ Execute
    \/ SchedulerLoop
    \/ SchedulerSubmit
    \/ SchedulerPoll
    \/ ExecuteReturn
    \/ ExecuteRaise
    \/ \E t \in TaskIds : WorkerPickup(t)
    \/ \E t \in TaskIds : WorkerStart(t)
    \/ \E t \in TaskIds : WorkerExecute(t)
    \/ \E t \in TaskIds : WorkerFinish(t)

Next ==
    \/ RunNext
    \/ Cancel

Spec == Init /\ [][Next]_vars

\* the driving thread and the pool threads keep running
Fairness ==
    /\ WF_vars(Scheduler)
    /\ \A t \in TaskIds : WF_vars(Worker(t))

\* the pipeline when cancel() is never called
RunSpec == Init /\ [][RunNext]_vars

FairRunSpec == RunSpec /\ Fairness

\* ---- dependencies on a task that is not in the pipeline ------------------
\* a task id no task of the pipeline has
MissingId == 0

\* add_task with a dependency list that names, or is, an id no task has
DanglingNext ==
    \/ \E kind \in TaskKinds : AddTask(kind, {MissingId})
    \/ RunNext

FairDanglingSpec == Init /\ [][DanglingNext]_vars /\ Fairness

TypeOK ==
    /\ max_workers \in 1..MaxWorkers
    /\ \A t \in Ids : status[t] \in TaskStatus
    /\ pstatus \in {"initialized", "running", "completed", "failed", "cancelled"}
    /\ pc \in {"idle", "loop", "submit", "poll", "returned", "raised"}

\* ---- a task object constructed on its own and validated ------------------
pipeline_vars == <<max_workers, tasks, dependencies, status, error_message,
                   results, futures, pstatus, pc, ready_tasks,
                   completed_tasks, executing_tasks, complete_calls,
                   unstarted_at_cancel,
                   submitted_in_run, on_task_fail_calls>>

\* CrawlTask(...), ParseTask(...), TagTask(...) or StoreTask(...)
ValidateInit ==
    /\ PipelineFields
    /\ max_workers = 1
    /\ vtask \in CrawlTaskArgs \cup StageTaskArgs
    /\ vresult = <<>>
    /\ vcontext = NoContext
    /\ vexecute = <<>>
    /\ task_counts = <<>>
    /\ key_papers = <<>>
    /\ paper_keys = <<>>
    /\ DefaultQuality
    /\ AgentInit

\* task.validate()
CallValidate ==
    /\ vresult' = <<TaskValidate(vtask)>>
    /\ UNCHANGED <<vtask, vcontext, vexecute, task_counts, key_papers,
                   paper_keys, pipeline_vars, quality_vars, agent_vars>>

ValidateNext == CallValidate

ValidateSpec == ValidateInit /\ [][ValidateNext]_vars

\* ---- get_pipeline_stats called from another thread -----------------------
\* the members of TaskStatus in the order the enum declares them
StatusOrder == <<PENDING, RUNNING, COMPLETED, FAILED, CANCELLED>>

\* len(self.get_tasks_by_status(st)): one pass over self.tasks
CountStatus(st) == Cardinality({t \in Ids : status[t] = st})

\* Pipeline.get_pipeline_stats: a call starts and counts the first status
GetPipelineStatsBegin ==
    /\ Len(task_counts) \in {0, Len(StatusOrder)}
    /\ task_counts' = <<CountStatus(StatusOrder[1])>>
    /\ UNCHANGED <<pipeline_vars, vtask, vresult, vcontext, vexecute,
                   key_papers, paper_keys, quality_vars, agent_vars>>

\* the next pass of its loop over TaskStatus; after the last one the call
\* returns task_counts together with total_tasks = len(self.tasks)
GetTasksByStatus ==
    /\ Len(task_counts) \in 1..(Len(StatusOrder) - 1)
    /\ task_counts' =
          Append(task_counts, CountStatus(StatusOrder[Len(task_counts) + 1]))
    /\ UNCHANGED <<pipeline_vars, vtask, vresult, vcontext, vexecute,
                   key_papers, paper_keys, quality_vars, agent_vars>>

\* a pipeline of tasks without dependencies, built before the first call
\* for statistics and run by one thread while another one asks for them
StatsNext ==
    \/ \E kind \in TaskKinds : task_counts = <<>> /\ AddTask(kind, {})
    \/ Execute
    \/ Scheduler
    \/ \E t \in TaskIds : Worker(t)
    \/ GetPipelineStatsBegin
    \/ GetTasksByStatus

StatsSpec == Init /\ [][StatsNext]_vars

\* an agent that has built no pipeline
NoPipeline == PipelineFields /\ max_workers = DEFAULT_MAX_WORKERS

\* ---- a stage task object constructed on its own and executed -----------
\* parser.parse_paper(paper), tagger.tag_paper(paper) and
\* storage.store_paper(paper) when they return: a value that is not the
\* record they were given
CollaboratorResult(stage, paper) ==
    CASE stage = "parse" -> [parsed |-> paper]
      [] stage = "tag" -> [tagged |-> paper]
      [] stage = "store" -> [stored |-> paper]

\* mutant of one pass of the loop: a record the collaborator raised on is
\* dropped by every stage
RecordOutput_DropOnFailure(stage, paper, raised) ==
    IF ~raised THEN <<CollaboratorResult(stage, paper)>> ELSE <<>>

\* one pass of the loop over self.papers: what it appends to the list
RecordOutput(stage, paper, raised) ==
    IF ~raised THEN <<CollaboratorResult(stage, paper)>>
    ELSE IF stage = "store" THEN <<>>
    ELSE <<paper>>

\* the loop over self.papers from position i on
RECURSIVE StageLoop(_, _, _, _, _)
StageLoop(stage, papers, raises, i, out) ==
    IF i > Len(papers) THEN out
    ELSE StageLoop(stage, papers, raises, i + 1,
                   out \o RecordOutput(stage, papers[i], i \in raises))

\* mutant: an exception of the collaborator leaves execute()
StageExecute_Propagate(task, context) ==
    IF task.config.name \notin context.registered
    THEN [raised |-> TRUE, value |-> <<>>]
    ELSE IF context.raises \cap DOMAIN task.papers # {}
    THEN [raised |-> TRUE, value |-> <<>>]
    ELSE [raised |-> FALSE,
          value |-> StageLoop(task.type, task.papers, context.raises, 1, <<>>)]

\* ParseTask.execute, TagTask.execute and StoreTask.execute: how the call
\* ends and the list it returns
StageExecute(task, context) ==
    IF task.config.name \notin context.registered
    THEN [raised |-> TRUE, value |-> <<>>]
    ELSE [raised |-> FALSE,
          value |-> StageLoop(task.type, task.papers, context.raises, 1, <<>>)]

\* the contexts execute() is called with
ContextArgs ==
    {Context(r, f) : r \in SUBSET {"arxiv"}, f \in SUBSET (1..MaxPapers)}

\* ParseTask(...), TagTask(...) or StoreTask(...) and a context
ExecuteInit ==
    /\ NoPipeline
    /\ vtask \in StageTaskArgs
    /\ vresult = <<>>
    /\ vcontext \in ContextArgs
    /\ vexecute = <<>>
    /\ task_counts = <<>>
    /\ key_papers = <<>>
    /\ paper_keys = <<>>
    /\ DefaultQuality
    /\ AgentInit

\* task.execute(context)
CallExecute ==
    /\ vexecute' = <<StageExecute(vtask, vcontext)>>
    /\ UNCHANGED <<vtask, vresult, vcontext, task_counts, key_papers,
                   paper_keys, pipeline_vars, quality_vars, agent_vars>>

ExecuteSpec == ExecuteInit /\ [][CallExecute]_vars

\* ---- _get_paper_key on pairs of records ----------------------------------
\* two different titles with the same hash
CollidingTitleA == Concat(Rep("x", 1), Concat(Rep("a", 5), Rep("b", 6)))
CollidingTitleB == Concat(Rep("x", 9), Concat(Rep("b", 1), Rep("a", 1)))

KeyTitles == {UpperTitle, LowerTitle, CollidingTitleA, CollidingTitleB}

KeyPapers ==
    {Paper(a, d, t, GoodAbstract) :
        a \in {"", "2301.00001", "2301.00002"}, d \in {"", "10.1/j"},
        t \in KeyTitles}

KeyInit ==
    /\ NoPipeline
    /\ vtask = NoTask
    /\ vresult = <<>>
    /\ vcontext = NoContext
    /\ vexecute = <<>>
    /\ task_counts = <<>>
    /\ key_papers \in [1..2 -> KeyPapers]
    /\ paper_keys = <<>>
    /\ DefaultQuality
    /\ AgentInit

\* agent._get_paper_key(paper) for each of the records
GetKeys ==
    /\ paper_keys' = [i \in DOMAIN key_papers |-> GetPaperKey(key_papers[i])]
    /\ UNCHANGED <<vtask, vresult, vcontext, vexecute, task_counts,
                   key_papers, pipeline_vars, quality_vars, agent_vars>>

KeyNext == GetKeys

KeySpec == KeyInit /\ [][KeyNext]_vars

\* ---- WorkflowAgent quality control ---------------------------------------
\* WorkflowAgent.add_quality_filter; a caller adds a filter function once
AddQualityFilter(f) ==
    /\ apc = "idle"
    /\ \A i \in 1..Len(quality_filters) : quality_filters[i] # f
    /\ quality_filters' = Append(quality_filters, f)
    /\ UNCHANGED <<enable_deduplication, seen_papers, qc_input, qc_result,
                   validate_vars, pipeline_vars, agent_vars>>

\* WorkflowAgent.apply_quality_control(papers)
ApplyQualityControl(papers) ==
    /\ apc = "idle"
    /\ LET end == QualityLoop(enable_deduplication, quality_filters, papers,
                              1, seen_papers, <<>>)
       IN /\ seen_papers' = end.seen
          /\ qc_input' = papers
          /\ qc_result' = end.filtered
    /\ UNCHANGED <<enable_deduplication, quality_filters, validate_vars,
                   pipeline_vars, agent_vars>>

QualityNext ==
    \/ \E f \in FilterKinds : AddQualityFilter(f)
    \/ \E papers \in PaperLists : ApplyQualityControl(papers)

\* a new agent, with either setting of enable_deduplication
QualityStart == NoPipeline /\ NoValidation /\ QualityInit /\ AgentInit

QualitySpec == QualityStart /\ [][QualityNext]_vars

\* ---- WorkflowAgent: registries, pipelines, history (agent.py) ------------
MaxRuns == 2         \* execute_pipeline calls that reach Pipeline.execute

\* names the registries and the pipelines map are used with
SourceNames == {"arxiv"}
ParserNames == {"pdf"}
TaggerNames == {"llm"}
StorageNames == {"db"}
PipelineNames == {"daily"}
\* f"quick_extraction_{timestamp}"
QuickName == "quick_extraction"

\* what source.search(query, max_results) may return
SearchResults == {<<>>, <<Paper("", "", UpperTitle, GoodAbstract)>>}

\* arguments of create_extraction_pipeline; "" stands for an optional name
\* that is not given
PipelineArgs(source_name, query, max_papers, parser_name, tagger_name, storage_name) ==
    [source_name |-> source_name, query |-> query, max_papers |-> max_papers,
     parser_name |-> parser_name, tagger_name |-> tagger_name,
     storage_name |-> storage_name]

CreateArgs ==
    {PipelineArgs(s, "ml", 1, p, t, st) :
        s \in SourceNames, p \in ParserNames \cup {""},
        t \in TaggerNames \cup {""}, st \in StorageNames \cup {""}}

\* arguments of run_quick_extraction
QuickArgs ==
    {PipelineArgs(s, q, 1, "", t, "") :
        s \in SourceNames, q \in QueryArgs, t \in TaggerNames \cup {""}}

RegisterSource(name) ==
    /\ apc = "idle"
    /\ sources' = sources \cup {name}
    /\ agent_error' = ""
    /\ UNCHANGED <<parsers, taggers, storages, pipelines, current,
                   execution_history, apc, task_data, pipeline_vars,
                   quality_vars, validate_vars>>

RegisterParser(name) ==
    /\ apc = "idle"
    /\ parsers' = parsers \cup {name}
    /\ agent_error' = ""
    /\ UNCHANGED <<sources, taggers, storages, pipelines, current,
                   execution_history, apc, task_data, pipeline_vars,
                   quality_vars, validate_vars>>

RegisterTagger(name) ==
    /\ apc = "idle"
    /\ taggers' = taggers \cup {name}
    /\ agent_error' = ""
    /\ UNCHANGED <<sources, parsers, storages, pipelines, current,
                   execution_history, apc, task_data, pipeline_vars,
                   quality_vars, validate_vars>>

RegisterStorage(name) ==
    /\ apc = "idle"
    /\ storages' = storages \cup {name}
    /\ agent_error' = ""
    /\ UNCHANGED <<sources, parsers, taggers, pipelines, current,
                   execution_history, apc, task_data, pipeline_vars,
                   quality_vars, validate_vars>>

\* mutant of create_extraction_pipeline's checks: only the source is checked
CreateError_SourceOnly(args) ==
    IF args.source_name \notin sources THEN "ValueError" ELSE ""

\* the ValueError create_extraction_pipeline raises, "" if it raises none
CreateError(args) ==
    IF args.source_name \notin sources THEN "ValueError"
    ELSE IF Bool(args.parser_name) /\ args.parser_name \notin parsers
    THEN "ValueError"
    ELSE IF Bool(args.tagger_name) /\ args.tagger_name \notin taggers
    THEN "ValueError"
    ELSE IF Bool(args.storage_name) /\ args.storage_name \notin storages
    THEN "ValueError"
    ELSE ""

\* the task kinds the pipeline gets, in add_task order
Supplied(args, stage) ==
    CASE stage = "crawl" -> TRUE
      [] stage = "parse" -> Bool(args.parser_name)
      [] stage = "tag" -> Bool(args.tagger_name)
      [] stage = "store" -> Bool(args.storage_name)

ChainOf(args) == SelectSeq(AllStages, LAMBDA stage : Supplied(args, stage))

\* task_id of the task of a kind: its place in the list
PositionOf(chain, stage) == CHOOSE i \in DOMAIN chain : chain[i] = stage

\* mutant of the dependency choice: every stage depends on the crawl task
StageDeps_AlwaysCrawl(args, chain, stage) ==
    IF stage = "crawl" THEN {} ELSE {PositionOf(chain, "crawl")}

\* the dependencies list each add_task call is given
StageDeps(args, chain, stage) ==
    CASE stage = "crawl" -> {}
      [] stage = "parse" -> {PositionOf(chain, "crawl")}
      [] stage = "tag" ->
            IF Bool(args.parser_name) THEN {PositionOf(chain, "parse")}
            ELSE {PositionOf(chain, "crawl")}
      [] stage = "store" ->
            IF Bool(args.tagger_name) THEN {PositionOf(chain, "tag")}
            ELSE IF Bool(args.parser_name) THEN {PositionOf(chain, "parse")}
            ELSE {PositionOf(chain, "crawl")}

StageConfig(args, stage) ==
    CASE stage = "crawl" ->
            TaskConfig(args.source_name, args.query, args.max_papers)
      [] stage = "parse" -> TaskConfig(args.parser_name, "", 0)
      [] stage = "tag" -> TaskConfig(args.tagger_name, "", 0)
      [] stage = "store" -> TaskConfig(args.storage_name, "", 0)

\* create_extraction_pipeline past its checks: Pipeline(...), the add_task
\* calls and self.pipelines[name] = pipeline
BuildPipeline(name, args) ==
    LET chain == ChainOf(args) IN
    /\ tasks' = chain
    /\ dependencies' = [i \in DOMAIN chain |-> StageDeps(args, chain, chain[i])]
    /\ status' = [i \in DOMAIN chain |-> PENDING]
    /\ error_message' = [i \in DOMAIN chain |-> None]
    /\ futures' = [i \in DOMAIN chain |-> NoFuture]
    /\ results' = <<>>
    /\ pstatus' = "initialized"
    /\ pc' = "idle"
    /\ ready_tasks' = <<>>
    /\ completed_tasks' = {}
    /\ executing_tasks' = {}
    /\ complete_calls' = 0
    /\ unstarted_at_cancel' = {}
    /\ submitted_in_run' = {}
    /\ on_task_fail_calls' = {}
    /\ task_config' = [i \in DOMAIN chain |-> StageConfig(args, chain[i])]
    /\ task_papers' = [i \in DOMAIN chain |-> <<>>]
    /\ task_result' = [i \in DOMAIN chain |-> None]
    /\ pipelines' = [n \in DOMAIN pipelines \cup {name} |->
                        IF n = name THEN args ELSE pipelines[n]]
    /\ current' = name
    /\ UNCHANGED max_workers

\* WorkflowAgent.create_extraction_pipeline
CreateExtractionPipeline(name, args) ==
    /\ apc = "idle"
    /\ agent_error' = CreateError(args)
    /\ IF CreateError(args) # ""
       THEN UNCHANGED <<pipeline_vars, task_data, pipelines, current>>
       ELSE BuildPipeline(name, args)
    /\ UNCHANGED <<registry_vars, execution_history, apc, quality_vars,
                   validate_vars>>

\* an entry of execution_history: its "pipeline_name" and "status" (the
\* timestamps, "error", "stats" and "results", which is the pipeline's own
\* results dict, are left out)
Summary(pipeline_name, st) == [pipeline_name |-> pipeline_name, status |-> st]

\* WorkflowAgent.execute_pipeline up to the call of pipeline.execute(); only
\* the pipeline built last is followed
ExecutePipeline(name) ==
    /\ apc = "idle"
    /\ IF name \notin DOMAIN pipelines
       THEN /\ agent_error' = "ValueError"
            /\ UNCHANGED <<pipeline_vars, apc>>
       ELSE /\ name = current
            /\ Len(execution_history) < MaxRuns
            /\ ExecuteBegin
            /\ apc' = "executing"
            /\ agent_error' = ""
    /\ UNCHANGED <<registry_vars, task_data, pipelines, current,
                   execution_history, quality_vars, validate_vars>>

\* mutant of execute_pipeline: the completed run replaces the history
ExecutePipelineReturn_Overwrite ==
    /\ apc = "executing"
    /\ pc = "returned"
    /\ execution_history' = <<Summary(current, "completed")>>
    /\ apc' = "idle"
    /\ agent_error' = ""
    /\ UNCHANGED <<registry_vars, task_data, pipelines, current, pipeline_vars,
                   quality_vars, validate_vars>>

\* execute_pipeline after pipeline.execute() returned
ExecutePipelineReturn ==
    /\ apc = "executing"
    /\ pc = "returned"
    /\ execution_history' = Append(execution_history, Summary(current, "completed"))
    /\ apc' = "idle"
    /\ agent_error' = ""
    /\ UNCHANGED <<registry_vars, task_data, pipelines, current, pipeline_vars,
                   quality_vars, validate_vars>>

\* mutant of execute_pipeline: a failed run is re-raised without an entry
ExecutePipelineRaise_Unrecorded ==
    /\ apc = "executing"
    /\ pc = "raised"
    /\ apc' = "idle"
    /\ agent_error' = "PipelineError"
    /\ UNCHANGED <<registry_vars, task_data, pipelines, current, pipeline_vars,
                   execution_history, quality_vars, validate_vars>>

\* execute_pipeline after pipeline.execute() raised: record, then re-raise
ExecutePipelineRaise ==
    /\ apc = "executing"
    /\ pc = "raised"
    /\ execution_history' = Append(execution_history, Summary(current, "failed"))
    /\ apc' = "idle"
    /\ agent_error' = "PipelineError"
    /\ UNCHANGED <<registry_vars, task_data, pipelines, current, pipeline_vars,
                   quality_vars, validate_vars>>

\* WorkflowAgent.get_execution_history: returns a copy of the list
GetExecutionHistory ==
    /\ apc = "idle"
    /\ UNCHANGED vars

\* ---- tasks of an agent-built pipeline on a pool worker -------------------
\* WorkflowAgent._on_task_complete for a CrawlTask: every parse, tag and
\* store task of the pipeline whose papers list is empty gets the result
OnCrawlComplete(found) ==
    [u \in Ids |-> IF tasks[u] \in StageTypes /\ Len(task_papers[u]) = 0
                   THEN found ELSE task_papers[u]]

\* _execute_task of a CrawlTask: CrawlTask.execute, then task.complete and
\* on_task_complete, or task.fail
CrawlTaskExecute(t) ==
    /\ t \in Ids
    /\ futures[t] = "started"
    /\ tasks[t] = "crawl"
    /\ \/ \* the source is missing from the context, or source.search raises
          /\ status' = TaskFail(status, t)
          /\ error_message' = [error_message EXCEPT ![t] = ErrorOf(t)]
          /\ futures' = [futures EXCEPT ![t] = "raising"]
          /\ UNCHANGED task_data
       \/ \E found \in SearchResults :
             /\ task_config[t].name \in sources
             /\ status' = TaskComplete(status, t)
             /\ task_result' = [task_result EXCEPT ![t] = found]
             /\ futures' = [futures EXCEPT ![t] = "returning"]
             /\ UNCHANGED <<error_message, task_config, task_papers>>
    /\ UNCHANGED <<max_workers, tasks, dependencies, results, pstatus, pc,
                   ready_tasks, completed_tasks, executing_tasks,
                   complete_calls, unstarted_at_cancel,
                   submitted_in_run, on_task_fail_calls>>
    /\ UNCHANGED <<registry_vars, run_vars, quality_vars, validate_vars>>

\* mutant: on_task_complete is not invoked
AgentWorkerFinish_NoCallback(t) ==
    /\ t \in Ids
    /\ futures[t] \in {"returning", "raising"}
    /\ futures' = [futures EXCEPT ![t] =
                      IF futures[t] = "returning" THEN "done_ok" ELSE "done_exc"]
    /\ on_task_fail_calls' =
          IF futures[t] = "raising"
          THEN on_task_fail_calls \cup {<<t, ErrorOf(t)>>}
          ELSE on_task_fail_calls
    /\ UNCHANGED task_data
    /\ UNCHANGED <<max_workers, tasks, dependencies, status, error_message,
                   results, pstatus, pc, ready_tasks, completed_tasks,
                   executing_tasks, complete_calls,
                   unstarted_at_cancel, submitted_in_run>>
    /\ UNCHANGED <<registry_vars, run_vars, quality_vars, validate_vars>>

\* the end of _execute_task in a pipeline of the agent: on_task_complete or
\* on_task_fail is invoked, then the result is returned or the exception
\* raised again and the future is done
AgentWorkerFinish(t) ==
    /\ t \in Ids
    /\ futures[t] \in {"returning", "raising"}
    /\ futures' = [futures EXCEPT ![t] =
                      IF futures[t] = "returning" THEN "done_ok" ELSE "done_exc"]
    /\ on_task_fail_calls' =
          IF futures[t] = "raising"
          THEN on_task_fail_calls \cup {<<t, ErrorOf(t)>>}
          ELSE on_task_fail_calls
    /\ task_papers' =
          IF futures[t] = "returning" /\ tasks[t] = "crawl"
          THEN OnCrawlComplete(task_result[t])
          ELSE task_papers
    /\ UNCHANGED <<task_config, task_result>>
    /\ UNCHANGED <<max_workers, tasks, dependencies, status, error_message,
                   results, pstatus, pc, ready_tasks, completed_tasks,
                   executing_tasks, complete_calls,
                   unstarted_at_cancel, submitted_in_run>>
    /\ UNCHANGED <<registry_vars, run_vars, quality_vars, validate_vars>>

\* the registry a parse, tag or store task looks its collaborator up in
RegistryOf(stage) ==
    CASE stage = "parse" -> parsers
      [] stage = "tag" -> taggers
      [] stage = "store" -> storages

\* what ParseTask, TagTask and StoreTask.execute return: one record per
\* input record (the collaborator's result for a record, or the record
\* itself where the collaborator raised, is written as that record), and one
\* identifier per stored record (every store_paper call is taken to succeed)
StageResult(stage, ps) ==
    IF stage = "store" THEN [i \in 1..Len(ps) |-> [stored |-> ps[i]]] ELSE ps

\* _execute_task of a ParseTask, TagTask or StoreTask
StageTaskExecute(t) ==
    /\ t \in Ids
    /\ futures[t] = "started"
    /\ tasks[t] \in StageTypes
    /\ IF task_config[t].name \notin RegistryOf(tasks[t])
       THEN /\ status' = TaskFail(status, t)
            /\ error_message' = [error_message EXCEPT ![t] = ErrorOf(t)]
            /\ futures' = [futures EXCEPT ![t] = "raising"]
            /\ UNCHANGED task_data
       ELSE /\ status' = TaskComplete(status, t)
            /\ task_result' = [task_result EXCEPT ![t] =
                                  StageResult(tasks[t], task_papers[t])]
            /\ futures' = [futures EXCEPT ![t] = "returning"]
            /\ UNCHANGED <<error_message, task_config, task_papers>>
    /\ UNCHANGED <<max_workers, tasks, dependencies, results, pstatus, pc,
                   ready_tasks, completed_tasks, executing_tasks,
                   complete_calls, unstarted_at_cancel,
                   submitted_in_run, on_task_fail_calls>>
    /\ UNCHANGED <<registry_vars, run_vars, quality_vars, validate_vars>>

\* ---- WorkflowAgent.run_quick_extraction ----------------------------------
\* its create_extraction_pipeline call
QuickCreate(args) ==
    /\ apc = "idle"
    /\ Len(execution_history) < MaxRuns
    /\ agent_error' = CreateError(args)
    /\ IF CreateError(args) # ""
       THEN UNCHANGED <<pipeline_vars, task_data, pipelines, current, apc>>
       ELSE BuildPipeline(QuickName, args) /\ apc' = "quick_created"
    /\ UNCHANGED <<registry_vars, execution_history, quality_vars,
                   validate_vars>>

\* its execute_pipeline call, up to pipeline.execute()
QuickExecute ==
    /\ apc = "quick_created"
    /\ ExecuteBegin
    /\ apc' = "quick"
    /\ UNCHANGED <<registry_vars, task_data, pipelines, current,
                   execution_history, agent_error, quality_vars, validate_vars>>

\* the first value of results that is a non-empty list of Paper
FirstPaperList ==
    LET lists == {t \in DOMAIN results :
                     tasks[t] # "store" /\ Len(results[t]) > 0}
    IN IF lists = {} THEN <<>>
       ELSE results[CHOOSE t \in lists : \A u \in lists : t <= u]

\* pipeline.execute() returned: the history entry, the papers of the
\* results and apply_quality_control
QuickReturn ==
    /\ apc = "quick"
    /\ pc = "returned"
    /\ execution_history' = Append(execution_history, Summary(current, "completed"))
    /\ LET end == QualityLoop(enable_deduplication, quality_filters,
                              FirstPaperList, 1, seen_papers, <<>>)
       IN /\ seen_papers' = end.seen
          /\ qc_input' = FirstPaperList
          /\ qc_result' = end.filtered
    /\ apc' = "idle"
    /\ agent_error' = ""
    /\ UNCHANGED <<registry_vars, task_data, pipelines, current, pipeline_vars,
                   enable_deduplication, quality_filters, validate_vars>>

\* pipeline.execute() raised: the history entry, then the error goes on to
\* the caller
QuickRaise ==
    /\ apc = "quick"
    /\ pc = "raised"
    /\ execution_history' = Append(execution_history, Summary(current, "failed"))
    /\ apc' = "idle"
    /\ agent_error' = "PipelineError"
    /\ UNCHANGED <<registry_vars, task_data, pipelines, current, pipeline_vars,
                   quality_vars, validate_vars>>

AgentNext ==
    \/ \E name \in SourceNames : RegisterSource(name)
    \/ \E name \in ParserNames : RegisterParser(name)
    \/ \E name \in TaggerNames : RegisterTagger(name)
    \/ \E name \in StorageNames : RegisterStorage(name)
    \/ \E name \in PipelineNames, args \in CreateArgs :
          CreateExtractionPipeline(name, args)
    \/ \E name \in PipelineNames \cup {QuickName} : ExecutePipeline(name)
    \/ ExecutePipelineReturn
    \/ ExecutePipelineRaise
    \/ \E args \in QuickArgs : QuickCreate(args)
    \/ QuickExecute
    \/ QuickReturn
    \/ QuickRaise
    \/ \E found \in SearchResults : ApplyQualityControl(found)
    \/ GetExecutionHistory
    \/ SchedulerLoop
    \/ SchedulerSubmit
    \/ SchedulerPoll
    \/ ExecuteReturn
    \/ ExecuteRaise
    \/ \E t \in ChainIds : WorkerPickup(t)
    \/ \E t \in ChainIds : WorkerStart(t)
    \/ \E t \in ChainIds : CrawlTaskExecute(t)
    \/ \E t \in ChainIds : StageTaskExecute(t)
    \/ \E t \in ChainIds : AgentWorkerFinish(t)

\* WorkflowAgent() with the default configuration
AgentStart == NoPipeline /\ NoValidation /\ DefaultQuality /\ AgentInit

AgentSpec == AgentStart /\ [][AgentNext]_vars

\* ---- properties ----------------------------------------------------------
Running == {t \in Ids : status[t] = RUNNING}
InExecute == pc \in {"loop", "submit", "poll"}
Finished == pc \in {"returned", "raised"}

\* the tasks a set of tasks depends on, directly or through n further edges
RECURSIVE DepClosure(_, _)
DepClosure(S, n) ==
    IF n = 0 THEN S
    ELSE DepClosure(S \cup UNION {dependencies[x] : x \in S \cap Ids}, n - 1)

\* t lies on a cycle of the dependency map
InCycle(t) == t \in DepClosure(dependencies[t], MaxTasks)

\* every dependency names a task of the pipeline and no task is on a cycle
ValidDag ==
    \A t \in Ids : dependencies[t] \subseteq Ids /\ ~InCycle(t)

\* C1: once a task's status is COMPLETED, FAILED or CANCELLED, no step of
\* the pipeline changes it.
C1_TerminalAbsorbing ==
    [][\A t \in Ids : status[t] \in Terminal => status'[t] = status[t]]_vars

\* C2: when a task B is handed to _submit_task (validate) and when B becomes
\* RUNNING, every task B depends on is a task of the pipeline that has
\* completed in this run and has status COMPLETED.
C2_DependencyOrdering ==
    [][\A b \in Ids :
          (\/ b \in executing_tasks' \ executing_tasks
           \/ (status'[b] = RUNNING /\ status[b] # RUNNING))
          => \A a \in dependencies[b] :
                a \in Ids /\ a \in completed_tasks /\ status[a] = COMPLETED]_vars

C2_Witness ==
    \E b \in Ids :
        /\ dependencies[b] # {}
        /\ status[b] = RUNNING
        /\ \A a \in dependencies[b] : a \in Ids /\ status[a] = COMPLETED

\* C3: in a pipeline without dependency edges at most max_workers tasks are
\* RUNNING at once and executing_tasks has at most max_workers members.
C3_BoundedConcurrency ==
    (\A t \in Ids : dependencies[t] = {})
        => /\ Cardinality(Running) <= max_workers
           /\ Cardinality(executing_tasks) <= max_workers

C3_Witness ==
    /\ \A t \in Ids : dependencies[t] = {}
    /\ Len(tasks) > max_workers
    /\ InExecute
    /\ Cardinality(Running) = max_workers
    /\ \E t \in Ids : status[t] = PENDING /\ futures[t] = NoFuture

\* C4: with A raising and B depending solely on A, execute() raises, and
\* then A is FAILED with its error message and B is still PENDING.
C4_DeadlockAfterFailure ==
    \A a, b \in TaskIds :
        (/\ Len(tasks) = 2 /\ a \in Ids /\ b \in Ids /\ a # b
         /\ tasks[a] = "fail" /\ dependencies[a] = {}
         /\ dependencies[b] = {a}
         /\ pc = "loop")
        ~> (/\ pc = "raised" /\ a \in Ids /\ b \in Ids
            /\ status[a] = FAILED /\ error_message[a] = ErrorOf(a)
            /\ status[b] = PENDING)

\* C5: with A raising and C unrelated to A and succeeding, C eventually
\* reaches COMPLETED.
C5_FailureIsolation ==
    \A a, c \in TaskIds :
        (/\ Len(tasks) = 2 /\ a \in Ids /\ c \in Ids /\ a # c
         /\ tasks[a] = "fail" /\ tasks[c] = "ok"
         /\ dependencies[a] = {} /\ dependencies[c] = {}
         /\ pc = "loop")
        ~> (c \in Ids /\ status[c] = COMPLETED)

\* C6: a call of execute() eventually returns or raises.
C6_ExecuteTerminates == InExecute ~> Finished

\* C7: when execute() returns on a pipeline whose tasks all validate and
\* succeed, the status is completed, on_pipeline_complete ran once in this
\* run and results maps every task ID to the value its execute returned;
\* and such a run on a valid DAG does return.
AllOk == \A t \in Ids : tasks[t] = "ok"

C7_ResultsCompleteness ==
    /\ [][(pc' = "returned" /\ pc # "returned" /\ AllOk)
            => /\ pstatus' = "completed"
               /\ complete_calls' = 1
               /\ DOMAIN results' = Ids
               /\ \A t \in Ids : results'[t] = ResultOf(t)]_vars
    /\ (InExecute /\ AllOk /\ ValidDag) ~> (pc = "returned")

C7_Witness ==
    /\ pc = "returned"
    /\ pstatus = "completed"
    /\ AllOk
    /\ Len(tasks) >= 2
    /\ \E t \in Ids : dependencies[t] # {}
    /\ DOMAIN results = Ids

\* C8: add_task accepts a cyclic dependency map; a task on a cycle is never
\* submitted or started by execute() and stays PENDING; the run never
\* returns normally, and when no task is ready and no future is outstanding
\* the driving thread raises and sets the status failed.
C8_CycleDeadlock ==
    /\ [](\A t \in Ids : InCycle(t) =>
            /\ futures[t] = NoFuture
            /\ t \notin executing_tasks
            /\ status[t] = PENDING
            /\ pc # "returned")
    /\ [][(/\ \E t \in Ids : InCycle(t)
           /\ pc = "loop" /\ FindReady = <<>> /\ Submitted = {})
            => (pc' = "raised" /\ pstatus' = "failed")]_vars

C8_Witness ==
    /\ pc = "raised"
    /\ pstatus = "failed"
    /\ \E t \in Ids : InCycle(t) /\ status[t] = PENDING

\* C9: a ready task whose validate() is false is marked FAILED with the
\* validation error when it is handed to _submit_task; it never gets a
\* future and its execute() never runs.
C9_ValidationFailure ==
    /\ [](\A t \in Ids : tasks[t] = "invalid" =>
            /\ futures[t] = NoFuture
            /\ status[t] \notin {RUNNING, COMPLETED}
            /\ error_message[t] \in {None, ValidationError(t)}
            /\ t \notin DOMAIN results)
    /\ [][\A t \in Ids :
            (tasks[t] = "invalid" /\ t \in executing_tasks' \ executing_tasks)
            => (status'[t] = FAILED /\ error_message'[t] = ValidationError(t))]_vars

C9_Witness ==
    \E t \in Ids :
        /\ tasks[t] = "invalid"
        /\ status[t] = FAILED
        /\ error_message[t] = ValidationError(t)
        /\ futures[t] = NoFuture

\* C10: a task that was PENDING and unsubmitted when cancel() was called
\* during execute() is not started afterwards.
C10_NoStartAfterCancel ==
    \A t \in unstarted_at_cancel :
        /\ status[t] # RUNNING
        /\ futures[t] \notin {"started", "returning", "raising", "done_ok", "done_exc"}

CancelledBeforeStart ==
    /\ Ids # {}
    /\ DOMAIN results = {}
    /\ \A t \in Ids :
          /\ tasks[t] = "ok"
          /\ status[t] = CANCELLED
          /\ futures[t] \in {NoFuture, "pending", "running", "cancelled"}

\* C12: once cancel() has been called before any task was started, every
\* task stays CANCELLED and results stays empty, whatever execute() does
\* afterwards.
C12_CancelBeforeStart ==
    [][(CancelledBeforeStart /\ Len(tasks') = Len(tasks)) =>
          /\ \A t \in Ids : status'[t] = CANCELLED
          /\ DOMAIN results' = {}]_vars

\* C18: the only status changes are PENDING -> RUNNING, RUNNING -> COMPLETED,
\* RUNNING -> FAILED and PENDING or RUNNING -> CANCELLED.
C18_StateMachineSound ==
    [][\A t \in Ids :
          \/ status'[t] = status[t]
          \/ status[t] = PENDING /\ status'[t] \in {RUNNING, CANCELLED}
          \/ status[t] = RUNNING /\ status'[t] \in {COMPLETED, FAILED, CANCELLED}]_vars

\* C19: every key of results is a task whose status is COMPLETED.
C19_ResultsOnlyCompleted ==
    \A t \in DOMAIN results : t \in Ids /\ status[t] = COMPLETED

\* C20: CrawlTask.validate() returns true exactly when source name and
\* query are non-empty and max_results > 0; ParseTask, TagTask and StoreTask
\* validate() return true exactly when the collaborator name and the paper
\* list are non-empty.
C20_ValidationPredicates ==
    vresult # <<>> =>
        /\ vtask.type = "crawl" =>
              (vresult[1] <=> /\ vtask.config.name # ""
                              /\ vtask.config.query # ""
                              /\ vtask.config.max_results >= 1)
        /\ vtask.type \in {"parse", "tag", "store"} =>
              (vresult[1] <=> /\ vtask.config.name # ""
                              /\ vtask.papers # <<>>)

C20_Witness ==
    /\ vresult = <<FALSE>>
    /\ vtask.type = "crawl"
    /\ vtask.config.name # ""
    /\ vtask.config.query # ""
    /\ vtask.config.max_results = 0

\* positions of list l holding a record with key k
KeyPositions(l, k) == {i \in 1..Len(l) : GetPaperKey(l[i]) = k}

\* a is b with some elements left out, the others in the order of b
RECURSIVE IsSubsequence(_, _)
IsSubsequence(a, b) ==
    IF Len(a) = 0 THEN TRUE
    ELSE IF Len(b) = 0 THEN FALSE
    ELSE IF Head(a) = Head(b) THEN IsSubsequence(Tail(a), Tail(b))
    ELSE IsSubsequence(a, Tail(b))

\* C15: with deduplication enabled, seen_papers holds the key of every
\* record apply_quality_control has met (it never loses a key and gains the
\* key of every record of the input), and a call returns a record only if
\* its key was not in seen_papers before the call and no earlier record of
\* the input has that key.  So a key that has been returned once is never
\* returned again, in the same call or in a later one, and of the records
\* sharing a key only the first one met can be returned.
C15_DedupOverLifetime ==
    [][(enable_deduplication /\ ApplyQualityControl(qc_input')) =>
          /\ \A i \in 1..Len(qc_result') :
                LET key == GetPaperKey(qc_result'[i])
                IN /\ key \notin seen_papers
                   /\ KeyPositions(qc_result', key) = {i}
                   /\ \E j \in KeyPositions(qc_input', key) :
                         /\ qc_input'[j] = qc_result'[i]
                         /\ \A k \in KeyPositions(qc_input', key) : j <= k
          /\ seen_papers \subseteq seen_papers'
          /\ \A j \in 1..Len(qc_input') :
                GetPaperKey(qc_input'[j]) \in seen_papers']_vars

\* a call is given two different acceptable records of a key met before,
\* and returns nothing
C15_Witness ==
    /\ enable_deduplication
    /\ Len(qc_input) = 2
    /\ PassesQualityFilters(quality_filters, qc_input[1])
    /\ PassesQualityFilters(quality_filters, qc_input[2])
    /\ GetPaperKey(qc_input[2]) = GetPaperKey(qc_input[1])
    /\ qc_input[2] # qc_input[1]
    /\ qc_result = <<>>

\* C17: apply_quality_control returns a subsequence of its input, in input
\* order, whose records all have a title of at least MIN_TITLE_LENGTH and an
\* abstract of at least MIN_ABSTRACT_LENGTH characters after stripping and
\* are accepted, without an exception, by every registered filter.
C17_QualityControlOutput ==
    [][ApplyQualityControl(qc_input') =>
          /\ IsSubsequence(qc_result', qc_input')
          /\ \A i \in 1..Len(qc_result') :
                /\ TextLen(Strip(qc_result'[i].title)) >= MIN_TITLE_LENGTH
                /\ TextLen(Strip(qc_result'[i].abstract)) >= MIN_ABSTRACT_LENGTH
                /\ \A f \in 1..Len(quality_filters) :
                      FilterCall(quality_filters[f], qc_result'[i]) = "true"]_vars

\* a filter is registered; of two records the second alone got through
C17_Witness ==
    /\ quality_filters # <<>>
    /\ Len(qc_input) = 2
    /\ qc_result = <<qc_input[2]>>

\* ---- the agent's history and pipelines map -------------------------------
IsPrefix(a, b) == Len(a) <= Len(b) /\ SubSeq(b, 1, Len(a)) = a

Last(s) == s[Len(s)]

\* C13: an execute_pipeline call on a registered name appends exactly one
\* entry to the history: nothing is appended while pipeline.execute() runs,
\* and the step that ends the call appends one entry for that pipeline whose
\* status is "completed" if pipeline.execute() returned and "failed" if it
\* raised; whenever the pipeline's error has reached the caller the failed
\* entry is already the last of the history
C13_HistoryRegardlessOfOutcome ==
    [][/\ (apc = "idle" /\ apc' # "idle") =>
              execution_history' = execution_history
       /\ (apc # "idle" /\ apc' # "idle") =>
              execution_history' = execution_history
       /\ (apc \in {"executing", "quick"} /\ apc' = "idle") =>
              /\ pc \in {"returned", "raised"}
              /\ Len(execution_history') = Len(execution_history) + 1
              /\ IsPrefix(execution_history, execution_history')
              /\ Last(execution_history').pipeline_name = current
              /\ Last(execution_history').status =
                     (IF pc = "returned" THEN "completed" ELSE "failed")
              /\ (pc = "raised") <=> (agent_error' = "PipelineError")
       /\ agent_error' = "PipelineError" =>
              /\ execution_history' # <<>>
              /\ Last(execution_history').status = "failed"]_vars

C13_Witness ==
    /\ Len(execution_history) = 2
    /\ execution_history[1] = Summary("daily", "completed")
    /\ execution_history[2] = Summary("daily", "failed")
    /\ agent_error = "PipelineError"
    /\ apc = "idle"

Unregistered(args) ==
    \/ args.source_name \notin sources
    \/ args.parser_name # "" /\ args.parser_name \notin parsers
    \/ args.tagger_name # "" /\ args.tagger_name \notin taggers
    \/ args.storage_name # "" /\ args.storage_name \notin storages

\* C16: a create_extraction_pipeline call with an unregistered name raises
\* ValueError and leaves the pipelines map as it was; any other call stores
\* the pipeline it assembled under the name and raises nothing
C16_CreateFailsFast ==
    [][\A name \in PipelineNames, args \in CreateArgs :
          CreateExtractionPipeline(name, args) =>
              IF Unregistered(args)
              THEN agent_error' = "ValueError" /\ pipelines' = pipelines
              ELSE /\ agent_error' = ""
                   /\ DOMAIN pipelines' = DOMAIN pipelines \cup {name}
                   /\ pipelines'[name] = args
                   /\ tasks' = ChainOf(args)
                   /\ \A n \in DOMAIN pipelines \ {name} :
                         pipelines'[n] = pipelines[n]]_vars

\* an earlier pipeline is kept after a call that raised: with both names in
\* the map and every tagger registered only a create_extraction_pipeline
\* call with an unregistered parser or storage raises ValueError
C16_Witness ==
    /\ DOMAIN pipelines = PipelineNames \cup {QuickName}
    /\ sources = SourceNames
    /\ taggers = TaggerNames
    /\ parsers = {}
    /\ agent_error = "ValueError"
    /\ apc = "idle"

\* ---- validation failure, retry and failure capture -----------------------
\* every task validates and succeeds, or fails validation, at least one
\* fails validation, and no task depends on one that does
OnlyValidationFailures ==
    /\ \E t \in Ids : tasks[t] = "invalid"
    /\ \A t \in Ids :
          /\ tasks[t] \in {"ok", "invalid"}
          /\ \A dep \in dependencies[t] : dep \in Ids /\ tasks[dep] # "invalid"

\* C21: a run of execute() on a pipeline in which every task succeeds or
\* fails validation, and none depends on a validation-failed task,
\* eventually returns normally (the validation-failed tasks count as done).
C21_ValidationFailureCountsAsDone ==
    (pc = "loop" /\ ValidDag /\ OnlyValidationFailures) ~> (pc = "returned")

\* C22: within one call of execute() no task is handed to the worker pool
\* a second time (so its execute() body runs at most once in the call).
C22_NoRetry ==
    [][\A t \in Ids : t \in NewlySubmitted => t \notin submitted_in_run]_vars

\* C23: when execute() of a task raises, the worker marks that task FAILED
\* with the raised message and changes no other task's status; it then
\* invokes on_task_fail with the task and the message; and neither these
\* steps nor the scheduler's handling of the failed future writes results.
C23_FailureCapture ==
    [][\A t \in Ids :
          /\ (futures[t] = "started" /\ futures'[t] = "raising") =>
                /\ status'[t] = FAILED
                /\ error_message'[t] = ErrorOf(t)
                /\ \A u \in Ids \ {t} : status'[u] = status[u]
                /\ results' = results
          /\ (futures[t] = "raising" /\ futures'[t] = "done_exc") =>
                /\ <<t, ErrorOf(t)>> \in on_task_fail_calls'
                /\ status' = status
                /\ results' = results
          /\ (futures[t] = "done_exc" /\ futures'[t] = NoFuture) =>
                /\ status' = status
                /\ (t \in DOMAIN results') = (t \in DOMAIN results)
                /\ t \in DOMAIN results => results'[t] = results[t]]_vars

C23_Witness ==
    \E t \in Ids, u \in Ids :
        /\ tasks[t] = "fail"
        /\ status[t] = FAILED
        /\ error_message[t] = ErrorOf(t)
        /\ <<t, ErrorOf(t)>> \in on_task_fail_calls
        /\ futures[t] = NoFuture
        /\ t \notin DOMAIN results
        /\ status[u] = COMPLETED
        /\ u \in DOMAIN results

\* C24: a task that carries an error message has status FAILED.
C24_ErrorOnlyOnFailed ==
    \A t \in Ids : error_message[t] # None => status[t] = FAILED

\* ---- deduplication and the quality checks --------------------------------
\* the minimum checks and every registered filter accept the record
Acceptable(paper) ==
    /\ TextLen(Strip(paper.title)) >= MIN_TITLE_LENGTH
    /\ TextLen(Strip(paper.abstract)) >= MIN_ABSTRACT_LENGTH
    /\ \A f \in 1..Len(quality_filters) :
          FilterCall(quality_filters[f], paper) = "true"

\* C25: seen_papers never loses a key, and with deduplication enabled the
\* key of a record is in seen_papers after the call also when the record was
\* rejected by the checks; when the first record of a key in the input is
\* rejected, no record of that key is returned, whatever the later ones are.
C25_KeyConsumedBeforeChecks ==
    [][/\ seen_papers \subseteq seen_papers'
       /\ (enable_deduplication /\ ApplyQualityControl(qc_input')) =>
             \A j \in 1..Len(qc_input') :
                ~Acceptable(qc_input'[j]) =>
                   LET key == GetPaperKey(qc_input'[j])
                   IN /\ key \in seen_papers'
                      /\ (\A i \in 1..(j - 1) : GetPaperKey(qc_input'[i]) # key)
                            => KeyPositions(qc_result', key) = {}]_vars

\* the first record of a key is rejected, the second one would pass, and
\* nothing is returned
C25_Witness ==
    /\ enable_deduplication
    /\ Len(qc_input) = 2
    /\ GetPaperKey(qc_input[1]) = GetPaperKey(qc_input[2])
    /\ ~Acceptable(qc_input[1])
    /\ Acceptable(qc_input[2])
    /\ qc_result = <<>>
    /\ seen_papers = {GetPaperKey(qc_input[1])}

\* C26: with enable_deduplication false a call leaves seen_papers as it was
\* and returns exactly the records of the input that pass the checks, in
\* order, records of equal key included.
C26_NoDedupWhenDisabled ==
    [][(~enable_deduplication /\ ApplyQualityControl(qc_input')) =>
          /\ seen_papers' = seen_papers
          /\ qc_result' = SelectSeq(qc_input', Acceptable)]_vars

C26_Witness ==
    /\ ~enable_deduplication
    /\ Len(qc_result) = 2
    /\ GetPaperKey(qc_result[1]) = GetPaperKey(qc_result[2])
    /\ seen_papers = {}

\* ---- the stable key ------------------------------------------------------
IdLess(paper) == paper.arxiv_id = "" /\ paper.doi = ""

\* the key is the arXiv id if there is one, otherwise the DOI if there is
\* one, otherwise made from the title alone
KeyFromIdentifier ==
    \A i \in DOMAIN paper_keys :
        LET paper == key_papers[i]
            key == paper_keys[i]
        IN /\ paper.arxiv_id # "" => key = PaperKey("arxiv", paper.arxiv_id, 0)
           /\ (paper.arxiv_id = "" /\ paper.doi # "") =>
                 key = PaperKey("doi", paper.doi, 0)
           /\ IdLess(paper) => key.prefix = "title" /\ key.id = ""

\* records with the same arXiv id have the same key, and a record with an
\* identifier never has the key of a record without one
KeyIdentifierRules ==
    \A i, j \in DOMAIN paper_keys :
        /\ (key_papers[i].arxiv_id # ""
            /\ key_papers[i].arxiv_id = key_papers[j].arxiv_id)
              => paper_keys[i] = paper_keys[j]
        /\ (~IdLess(key_papers[i]) /\ IdLess(key_papers[j]))
              => paper_keys[i] # paper_keys[j]

StageRank(stage) ==
    CASE stage = "crawl" -> 1 [] stage = "parse" -> 2
      [] stage = "tag" -> 3 [] stage = "store" -> 4

TasksOfStage(stage) == {i \in Ids : tasks[i] = stage}

\* C28: the pipeline built from the arguments has one crawl task without
\* dependencies, one task for each optional stage that was given and none for
\* the others, in the order parse, tag, store; every task after the crawl
\* task depends on exactly the task before it in that order, so the
\* dependency map is acyclic and names only tasks of the pipeline.
C28_LinearChain ==
    current # "" =>
        LET args == pipelines[current] IN
        /\ Cardinality(TasksOfStage("crawl")) = 1
        /\ Cardinality(TasksOfStage("parse")) =
              (IF args.parser_name # "" THEN 1 ELSE 0)
        /\ Cardinality(TasksOfStage("tag")) =
              (IF args.tagger_name # "" THEN 1 ELSE 0)
        /\ Cardinality(TasksOfStage("store")) =
              (IF args.storage_name # "" THEN 1 ELSE 0)
        /\ \A i, j \in Ids : i < j => StageRank(tasks[i]) < StageRank(tasks[j])
        /\ dependencies[1] = {}
        /\ \A i \in Ids \ {1} : dependencies[i] = {i - 1}
        /\ ValidDag

\* a pipeline without parse stage: the tag task depends on the crawl task
C28_Witness ==
    /\ tasks = <<"crawl", "tag", "store">>
    /\ dependencies = <<{}, {1}, {2}>>
    /\ pc = "returned"

\* ---- pipeline status and the scheduler's sets ----------------------------
\* C29: the pipeline status becomes completed or failed only from running;
\* in particular a status cancel() has set to cancelled is not overwritten
\* with completed or failed by an execute() that is still in progress.
C29_PipelineStatusFinal ==
    [][(pstatus' \in {"completed", "failed"} /\ pstatus' # pstatus)
          => pstatus = "running"]_vars

\* C30: while the scheduling loop runs, completed_tasks and executing_tasks
\* are disjoint sets of task ids of the pipeline, and every task in
\* executing_tasks has a future in Pipeline.futures.
C30_SchedulerBookkeeping ==
    InExecute =>
        /\ completed_tasks \cap executing_tasks = {}
        /\ completed_tasks \cup executing_tasks \subseteq Ids
        /\ \A t \in executing_tasks : futures[t] # NoFuture

\* ---- stage tasks executed on their own -----------------------------------
\* the call of execute() found its collaborator in the context
CollaboratorFound == vtask.config.name \in vcontext.registered

RECURSIVE RaisesFrom(_, _)
RaisesFrom(i, paper) ==
    /\ i <= Len(quality_filters)
    /\ \/ FilterCall(quality_filters[i], paper) = "raise"
       \/ /\ FilterCall(quality_filters[i], paper) = "true"
          /\ RaisesFrom(i + 1, paper)

FilterRaises(paper) ==
    /\ TextLen(Strip(paper.title)) >= MIN_TITLE_LENGTH
    /\ TextLen(Strip(paper.abstract)) >= MIN_ABSTRACT_LENGTH
    /\ RaisesFrom(1, paper)

\* C37: apply_quality_control returns a list also when a filter raises; a
\* record on which a filter raises is not in it, and every record of the
\* input that passes the checks and is not a duplicate is in it, those after
\* the raise included.
C37_RaisingFilterRejects ==
    [][ApplyQualityControl(qc_input') =>
          \A j \in 1..Len(qc_input') :
             LET paper == qc_input'[j]
             IN /\ FilterRaises(paper) =>
                      \A k \in 1..Len(qc_result') : qc_result'[k] # paper
                /\ (/\ Acceptable(paper)
                    /\ enable_deduplication =>
                          /\ GetPaperKey(paper) \notin seen_papers
                          /\ \A i \in 1..(j - 1) :
                                GetPaperKey(qc_input'[i]) # GetPaperKey(paper))
                      => \E k \in 1..Len(qc_result') : qc_result'[k] = paper]_vars

\* a filter raised on the first record and the second one was returned
C37_Witness ==
    /\ Len(qc_input) = 2
    /\ FilterRaises(qc_input[1])
    /\ Acceptable(qc_input[2])
    /\ qc_result = <<qc_input[2]>>

NewlyExecuting == {t \in Ids : t \in executing_tasks' /\ t \notin executing_tasks}

\* C34: when a task is validated and submitted, every task it depends on is
\* in completed_tasks with status COMPLETED and its worker has left
\* _execute_task, the completion callback included; so the list the agent's
\* callback copies from a crawl result into the downstream tasks is there.
C34_CallbackBeforeDependents ==
    [][\A t \in NewlyExecuting :
          /\ \A d \in dependencies[t] :
                /\ d \in completed_tasks
                /\ status[d] = COMPLETED
                /\ futures[d] = NoFuture
          /\ tasks[t] \in StageTypes =>
                \A c \in Ids :
                   (tasks[c] = "crawl" /\ task_result[c] # <<>>)
                      => task_papers[t] # <<>>]_vars

\* the last task of a chain of three is running on the list the crawl found
C34_Witness ==
    /\ InExecute
    /\ Len(tasks) = 3
    /\ futures[3] = "started"
    /\ task_result[1] # <<>>
    /\ task_papers[3] = task_result[1]

\* ---- a crawl that finds nothing --------------------------------------------
\* the crawl task of the agent's pipeline returned in this run and the task
\* after it has no records: the source returned an empty list and no
\* earlier run of the pipeline left a list in the downstream tasks
EmptyCrawl ==
    /\ apc \in {"executing", "quick"}
    /\ Len(tasks) >= 2
    /\ 1 \in completed_tasks
    /\ task_papers[2] = <<>>

\* the crawl task of the agent's pipeline returned an empty list in this run
EmptyCrawlResult ==
    /\ apc \in {"executing", "quick"}
    /\ Len(tasks) >= 2
    /\ 1 \in completed_tasks
    /\ task_result[1] = <<>>

MissingDependency(t) == ~(dependencies[t] \subseteq Ids)

\* t, or a task t depends on through any number of edges, does
DependsOnMissing(t) ==
    \E x \in DepClosure({t}, MaxTasks) \cap Ids : MissingDependency(x)

\* t and every task t depends on, through any number of edges, are tasks of
\* the pipeline that validate and return and are on no cycle
Sound(t) ==
    \A x \in DepClosure({t}, MaxTasks) :
        x \in Ids /\ tasks[x] = "ok" /\ ~InCycle(x)

\* C39: a task with a dependency on an id that is not in the pipeline is
\* accepted by add_task, never gets a future and stays PENDING; in a run of
\* such a pipeline every task that does not depend on the missing id, directly
\* or through other tasks, and whose own dependencies all succeed, is
\* submitted, and execute() ends with the deadlock error and status failed.
C39_MissingDependency ==
    /\ [](\A t \in Ids : MissingDependency(t) =>
             /\ status[t] = PENDING
             /\ futures[t] = NoFuture
             /\ t \notin executing_tasks
             /\ pc # "returned")
    /\ \A t \in TaskIds :
          (/\ pc = "loop"
           /\ t \in Ids /\ ~DependsOnMissing(t) /\ Sound(t)
           /\ \E u \in Ids : MissingDependency(u))
             ~> (t \in submitted_in_run)
    /\ (pc = "loop" /\ \E u \in Ids : MissingDependency(u))
          ~> (pc = "raised" /\ pstatus = "failed")

\* ---- statistics taken during a run -----------------------------------------
RECURSIVE SumUpTo(_, _)
SumUpTo(counts, n) == IF n = 0 THEN 0 ELSE counts[n] + SumUpTo(counts, n - 1)

\* C36: the per-status counts a get_pipeline_stats call returns sum to
\* total_tasks, the number of tasks of the pipeline.
C36_StatsSumToTotal ==
    Len(task_counts) = Len(StatusOrder)
       => SumUpTo(task_counts, Len(task_counts)) = Len(tasks)

====
